---- MODULE Spec2Model ----
(***************************************************************************)
(* A model of the rotational core simulator (src/core_simulator.py) and of *)
(* the handlers that read it (src/main.py).                                *)
(*                                                                         *)
(* Time is in seconds, as time.time() returns it.  current_rpm is a float  *)
(* in the code; here it is an integer, and the linear ramp                 *)
(* target_rpm * (elapsed / 900) is computed as (target_rpm * elapsed) \div *)
(* 900, which is exact whenever elapsed is a multiple of 9 seconds (all    *)
(* the clock steps of ClockSteps are).                                     *)
(***************************************************************************)
EXTENDS Integers, FiniteSets, Sequences, TLC

VARIABLES
    current_rpm,            \* self.current_rpm
    target_rpm,             \* self.target_rpm
    is_spinning,            \* self.is_spinning
    spin_start_time,        \* self.spin_start_time (None or a time.time() value)
    spin_duration_minutes,  \* self.spin_duration_minutes
    spin_cycles_completed,  \* self.spin_cycles_completed
    total_energy_generated, \* self.total_energy_generated
    now,                    \* the value time.time() returned last
    lastOp,                 \* the operation that produced this state
    phase,                  \* the phase the last update_simulation observed
    prevPhase,              \* the phase the update_simulation before it observed
    startCalls,             \* how many times start_spin_cycle has been called
    reading,                \* the dict the last handler returned (NoReading otherwise)
    thread,                 \* a thread part-way through update_simulation
    simulation_running,     \* main.py: the flag the polling loop tests
    simulation_threads      \* how many background_simulation threads are alive

vars == <<current_rpm, target_rpm, is_spinning, spin_start_time,
          spin_duration_minutes, spin_cycles_completed,
          total_energy_generated, now,
          lastOp, phase, prevPhase, startCalls, reading, thread,
          simulation_running, simulation_threads>>

----
\* Bounds of the model.

\* The wall clock starts at MinTime (time.time() is never 0) ...
MinTime == 900
\* ... and the model stops reading it once it has passed MaxTime.
MaxTime == 3600
\* At most MaxCycles calls of start_spin_cycle.
MaxCycles == 2

\* How far time.time() may have advanced between two reads of it.
ClockSteps == {0, 90, 450, 900}
\* The same, for the specification with the handlers.
ReadingSteps == {0, 900}
\* The same, when the system clock may be set back between two reads
\* (time.time() is not monotonic).
SkewSteps == {-90, 0, 90, 900}
\* The durations (minutes) a caller passes to start_spin_cycle.
Durations == {10, 15, 30}

----
\* Constants of CoreSimulator.__init__ and update_simulation.

max_power_gw == 200
max_rpm == 200000
acceleration_rate == 1000
spinup_time_seconds == 900
None == -1

Max(a, b) == IF a >= b THEN a ELSE b

----
\* The simulator object as a record, so that a handler can apply
\* update_simulation several times in one step.

Sim == [current_rpm |-> current_rpm,
        target_rpm |-> target_rpm,
        is_spinning |-> is_spinning,
        spin_start_time |-> spin_start_time,
        spin_duration_minutes |-> spin_duration_minutes,
        spin_cycles_completed |-> spin_cycles_completed,
        total_energy_generated |-> total_energy_generated]

\* Line 48: elapsed_time = current_time - spin_start_time if spin_start_time else 0
\* (None and 0 are both falsy).
Elapsed(start, t) == IF start # None /\ start # 0 THEN t - start ELSE 0

\* Mutant: the idle branch returns without zeroing current_rpm.
IdleRpmKept(rpm) == rpm

\* Line 44: an idle core reads 0.
IdleRpm(rpm) == 0

\* Mutant: the ramp jumps to the target at once.
SpinUpRpmEager(target, elapsed) == target

\* Lines 55-56: the linear ramp.
SpinUpRpm(target, elapsed) == (target * elapsed) \div spinup_time_seconds

\* Mutant: the hold sags below the target.
SteadyRpmSagging(target) == target - acceleration_rate

\* Line 59: at maximum RPM.
SteadyRpm(target) == target

\* Mutant: below max_rpm the spin-down branch speeds the core up.
SpinDownRpmRebound(rpm) ==
    IF rpm < max_rpm THEN rpm + acceleration_rate
    ELSE Max(0, rpm - acceleration_rate)

\* Mutant: the deceleration step has no floor.
SpinDownRpmUnfloored(rpm) == rpm - acceleration_rate

\* Mutant: the spin-down branch never lowers current_rpm.
SpinDownRpmNoDecay(rpm) == Max(0, rpm)

\* Line 62: one deceleration step per call.
SpinDownRpm(rpm) == Max(0, rpm - acceleration_rate)

\* Mutant: the spin-down begins as soon as the requested duration is over.
BranchByDuration(s, t) ==
    IF ~s.is_spinning THEN "Idle"
    ELSE IF Elapsed(s.spin_start_time, t) >= s.spin_duration_minutes * 60 THEN "SpinDown"
    ELSE IF Elapsed(s.spin_start_time, t) < spinup_time_seconds THEN "SpinUp"
    ELSE "Steady"

\* The branch of update_simulation that a call at time t takes.
Branch(s, t) ==
    IF ~s.is_spinning THEN "Idle"
    ELSE IF Elapsed(s.spin_start_time, t) < spinup_time_seconds THEN "SpinUp"
    ELSE IF Elapsed(s.spin_start_time, t) < s.spin_duration_minutes * 60 THEN "Steady"
    ELSE "SpinDown"

\* Mutant: a cycle is counted when its spin-down completes.
update_simulation_counting(s, t) ==
    LET elapsed == Elapsed(s.spin_start_time, t)
        b == Branch(s, t)
    IN  CASE b = "Idle" -> [s EXCEPT !.current_rpm = IdleRpm(s.current_rpm)]
          [] b = "SpinUp" -> [s EXCEPT !.current_rpm = SpinUpRpm(s.target_rpm, elapsed)]
          [] b = "Steady" -> [s EXCEPT !.current_rpm = SteadyRpm(s.target_rpm)]
          [] OTHER ->
                LET r == SpinDownRpm(s.current_rpm)
                IN  IF r <= 0
                    THEN [s EXCEPT !.current_rpm = r,
                                   !.is_spinning = FALSE,
                                   !.spin_start_time = None,
                                   !.spin_cycles_completed = @ + 1]
                    ELSE [s EXCEPT !.current_rpm = r]

\* Mutant: the idle branch also forgets the requested duration.
update_simulation_resetting(s, t) ==
    LET elapsed == Elapsed(s.spin_start_time, t)
        b == Branch(s, t)
    IN  CASE b = "Idle" -> [s EXCEPT !.current_rpm = IdleRpm(s.current_rpm),
                                     !.spin_duration_minutes = 0]
          [] b = "SpinUp" -> [s EXCEPT !.current_rpm = SpinUpRpm(s.target_rpm, elapsed)]
          [] b = "Steady" -> [s EXCEPT !.current_rpm = SteadyRpm(s.target_rpm)]
          [] OTHER ->
                LET r == SpinDownRpm(s.current_rpm)
                IN  IF r <= 0
                    THEN [s EXCEPT !.current_rpm = r,
                                   !.is_spinning = FALSE,
                                   !.spin_start_time = None]
                    ELSE [s EXCEPT !.current_rpm = r]

\* update_simulation, called when time.time() returns t.
update_simulation(s, t) ==
    LET elapsed == Elapsed(s.spin_start_time, t)
        b == Branch(s, t)
    IN  CASE b = "Idle" -> [s EXCEPT !.current_rpm = IdleRpm(s.current_rpm)]
          [] b = "SpinUp" -> [s EXCEPT !.current_rpm = SpinUpRpm(s.target_rpm, elapsed)]
          [] b = "Steady" -> [s EXCEPT !.current_rpm = SteadyRpm(s.target_rpm)]
          [] OTHER ->
                LET r == SpinDownRpm(s.current_rpm)
                IN  IF r <= 0
                    THEN [s EXCEPT !.current_rpm = r,
                                   !.is_spinning = FALSE,
                                   !.spin_start_time = None]
                    ELSE [s EXCEPT !.current_rpm = r]

\* The phase a caller observes after update_simulation(s, t): Idle when the
\* core is not spinning afterwards, else the branch the call took.
ObservedPhase(s, t) ==
    IF ~update_simulation(s, t).is_spinning THEN "Idle" ELSE Branch(s, t)

----
\* Derived quantities.  Each is computed from the current_rpm the simulator
\* holds after the update_simulation the getter starts with.  Floats are
\* fixed-point integers: power in MW, kinetic energy in MJ, stress in 1e-4 %.

core_mass == 199
\* core_radius = 1.5 m, held as twice its value.
core_radius_x2 == 3
\* pi squared, times 100.
pi_squared_e2 == 987

\* Line 13: startup_energy_gj = 2217.3, in MJ.
startup_energy_mj == 2217300

\* Lines 76-77: max_power_gw * (current_rpm / max_rpm), in MW.
PowerMw(rpm) == (max_power_gw * rpm) \div (max_rpm \div 1000)

\* Lines 84-87: 0.5 * I * w^2 with I = 0.5 * m * r^2 and w = rpm * 2 pi / 60,
\* that is (8 I) * rpm^2 * pi^2 / 14400 joules, in MJ.
KineticEnergyMj(rpm) ==
    LET krpm == rpm \div 1000
        inertia_x8 == core_mass * core_radius_x2 * core_radius_x2
    IN  (((inertia_x8 * krpm * krpm) \div 144) * pi_squared_e2) \div 10000

\* Lines 113-114: (current_rpm / max_rpm) ** 2 * 100, in 1e-4 percent.
MaterialStressE4(rpm) ==
    LET krpm == rpm \div 1000
        kmax == max_rpm \div 1000
    IN  krpm * krpm * (1000000 \div (kmax * kmax))

\* Lines 121-144: the level get_safety_status reports for rpm.
SafetyLevel(rpm) ==
    IF rpm = 0 THEN "green"
    ELSE IF rpm < 50000 THEN "yellow"
    ELSE IF rpm < 150000 THEN "orange"
    ELSE "red"

----
\* The handlers that assemble a reading.  Every getter calls
\* update_simulation before it reads current_rpm; a handler is one step, all
\* its getters reading the same time.time() value t.

\* get_simulation_stats, lines 99-108: three getters in a row.
get_simulation_stats(s, t) ==
    LET s1 == update_simulation(s, t)       \* get_current_rpm
        s2 == update_simulation(s1, t)      \* get_current_power
        s3 == update_simulation(s2, t)      \* get_kinetic_energy
    IN  [after |-> s3, before |-> s2,
         out |-> [is_spinning |-> s3.is_spinning,
                  spin_cycles_completed |-> s.spin_cycles_completed,
                  total_energy_generated |-> s.total_energy_generated,
                  rpm |-> s1.current_rpm,
                  kind |-> "stats",
                  power |-> PowerMw(s2.current_rpm),
                  kinetic_energy |-> KineticEnergyMj(s3.current_rpm)]]

\* The dict of system_status (main.py lines 83-91) and of
\* background_simulation (main.py lines 32-39), built from the state s.
\* get_safety_status calls get_kinetic_energy and then get_current_rpm;
\* calculate_material_stress reads current_rpm without an update.
status_dict(s, t, kind) ==
    LET s1 == update_simulation(s, t)       \* get_current_rpm
        s2 == update_simulation(s1, t)      \* get_current_power
        s3 == update_simulation(s2, t)      \* get_kinetic_energy
        s4 == update_simulation(s3, t)      \* get_safety_status: get_kinetic_energy
        s5 == update_simulation(s4, t)      \* get_safety_status: get_current_rpm
    IN  [after |-> s5, before |-> s4,
         out |-> [rpm |-> s1.current_rpm,
                  kind |-> kind,
                  power |-> PowerMw(s2.current_rpm),
                  kinetic_energy |-> KineticEnergyMj(s3.current_rpm),
                  safety |-> SafetyLevel(s5.current_rpm),
                  material_stress |-> MaterialStressE4(s5.current_rpm)]]

\* /api/system_status, main.py lines 80-91.
system_status(s, t) == status_dict(s, t, "status")

\* One round of the loop of background_simulation, main.py lines 27-43:
\* update_simulation, then the same getters.
background_simulation(s, t) == status_dict(update_simulation(s, t), t, "broadcast")

----
NoReading == [kind |-> "none"]

\* No thread is inside update_simulation.
ThreadReady == [pc |-> "ready"]

Install(s) ==
    /\ current_rpm' = s.current_rpm
    /\ target_rpm' = s.target_rpm
    /\ is_spinning' = s.is_spinning
    /\ spin_start_time' = s.spin_start_time
    /\ spin_duration_minutes' = s.spin_duration_minutes
    /\ spin_cycles_completed' = s.spin_cycles_completed
    /\ total_energy_generated' = s.total_energy_generated

Init ==
    /\ current_rpm = 0
    /\ target_rpm = 0
    /\ is_spinning = FALSE
    /\ spin_start_time = None
    /\ spin_duration_minutes = 0
    /\ spin_cycles_completed = 0
    /\ total_energy_generated = 0
    /\ now = MinTime
    /\ lastOp = "init"
    /\ phase = "Idle"
    /\ prevPhase = "Idle"
    /\ startCalls = 0
    /\ reading = NoReading
    /\ thread = ThreadReady
    /\ simulation_running = FALSE
    /\ simulation_threads = 0

NextCycles(c) == c + 1

\* Mutant: a call while the core is spinning is ignored.
start_spin_cycle_guarded(s, d, t) ==
    IF s.is_spinning THEN s
    ELSE [s EXCEPT !.spin_duration_minutes = d,
                   !.target_rpm = max_rpm,
                   !.is_spinning = TRUE,
                   !.spin_start_time = t,
                   !.spin_cycles_completed = NextCycles(s.spin_cycles_completed)]

\* Mutant: a call while the core is spinning keeps the running cycle's
\* spin_start_time.
start_spin_cycle_keeping_time(s, d, t) ==
    [s EXCEPT !.spin_duration_minutes = d,
              !.target_rpm = max_rpm,
              !.is_spinning = TRUE,
              !.spin_start_time = IF s.is_spinning THEN @ ELSE t,
              !.spin_cycles_completed = NextCycles(s.spin_cycles_completed)]

\* start_spin_cycle(duration_minutes), lines 27-33.
start_spin_cycle(s, d, t) ==
    [s EXCEPT !.spin_duration_minutes = d,
              !.target_rpm = max_rpm,
              !.is_spinning = TRUE,
              !.spin_start_time = t,
              !.spin_cycles_completed = NextCycles(s.spin_cycles_completed)]

\* Mutant: the stop forgets to clear spin_start_time.
emergency_stop_keeps_start(s) ==
    [s EXCEPT !.target_rpm = 0,
              !.is_spinning = FALSE]

\* Mutant: the stop zeroes current_rpm itself.
emergency_stop_zeroing(s) ==
    [s EXCEPT !.target_rpm = 0,
              !.current_rpm = 0,
              !.is_spinning = FALSE,
              !.spin_start_time = None]

\* Mutant: the stop only lowers the target and leaves the cycle running.
emergency_stop_soft(s) ==
    [s EXCEPT !.target_rpm = 0]

\* Mutant: the stop leaves target_rpm as it is.
emergency_stop_keeps_target(s) ==
    [s EXCEPT !.is_spinning = FALSE,
              !.spin_start_time = None]

\* emergency_stop(), lines 35-39.
emergency_stop(s) ==
    [s EXCEPT !.target_rpm = 0,
              !.is_spinning = FALSE,
              !.spin_start_time = None]

StartCycle(d, dt) ==
    /\ startCalls < MaxCycles
    /\ now + dt >= MinTime
    /\ now + dt <= MaxTime
    /\ now' = now + dt
    /\ Install(start_spin_cycle(Sim, d, now'))
    /\ lastOp' = "start"
    /\ startCalls' = startCalls + 1
    /\ reading' = NoReading
    /\ UNCHANGED <<phase, prevPhase, thread,
                   simulation_running, simulation_threads>>

EmergencyStop ==
    /\ Install(emergency_stop(Sim))
    /\ lastOp' = "stop"
    /\ reading' = NoReading
    /\ UNCHANGED <<now, phase, prevPhase, startCalls, thread,
                   simulation_running, simulation_threads>>

\* One call of update_simulation (Evaluate), the clock having advanced by dt.
Evaluate(dt) ==
    /\ now + dt >= MinTime
    /\ now + dt <= MaxTime
    /\ now' = now + dt
    /\ Install(update_simulation(Sim, now'))
    /\ lastOp' = "update"
    /\ prevPhase' = phase
    /\ phase' = ObservedPhase(Sim, now')
    /\ reading' = NoReading
    /\ UNCHANGED <<startCalls, thread, simulation_running, simulation_threads>>

\* A handler (get_simulation_stats, system_status, background_simulation)
\* runs as one step, the clock having advanced by dt; r is what it computes
\* from the simulator at that time.
Handler(r, op, dt) ==
    /\ now + dt >= MinTime
    /\ now + dt <= MaxTime
    /\ now' = now + dt
    /\ Install(r.after)
    /\ reading' = r.out
    /\ prevPhase' = ObservedPhase(r.before, now')
    /\ phase' = IF r.after.is_spinning THEN Branch(r.before, now') ELSE "Idle"
    /\ lastOp' = op
    /\ UNCHANGED <<startCalls, thread, simulation_running, simulation_threads>>

GetSimulationStats(dt) == Handler(get_simulation_stats(Sim, now + dt), "stats", dt)

SystemStatus(dt) == Handler(system_status(Sim, now + dt), "status", dt)

BackgroundSimulation(dt) == Handler(background_simulation(Sim, now + dt), "broadcast", dt)

\* The simulator alone: the two commands and update_simulation.
Next ==
    \/ \E d \in Durations, dt \in ClockSteps : StartCycle(d, dt)
    \/ EmergencyStop
    \/ \E dt \in ClockSteps : Evaluate(dt)

Spec == Init /\ [][Next]_vars

\* The simulator with the handlers that assemble readings from it.
NextReadings ==
    \/ \E d \in Durations, dt \in ReadingSteps : StartCycle(d, dt)
    \/ EmergencyStop
    \/ \E dt \in ReadingSteps : Evaluate(dt)
    \/ \E dt \in ReadingSteps : GetSimulationStats(dt)
    \/ \E dt \in ReadingSteps : SystemStatus(dt)
    \/ \E dt \in ReadingSteps : BackgroundSimulation(dt)

SpecReadings == Init /\ [][NextReadings]_vars

\* The simulator alone, under a system clock that may be set back.
NextSkew ==
    \/ \E d \in Durations, dt \in SkewSteps : StartCycle(d, dt)
    \/ EmergencyStop
    \/ \E dt \in SkewSteps : Evaluate(dt)

SpecSkew == Init /\ [][NextSkew]_vars

----
\* The capacity model (src/energy_calculator.py).  Lengths are in miles,
\* diameters in millimetres, capacities in MWh; a call ends with a value or,
\* where Python divides by zero, with a ZeroDivisionError.  The code raises
\* nothing else: it has no validation of its arguments.

\* Line 7: 48 * 0.0254 m, in millimetres.
conduit_diameter_mm == 1219

\* Lines 20-24: pi * (d / 2)^2 * (length * 1609.34) * 2.5, with pi = 355/113.
calculate_conduit_capacity(length_miles, diameter_mm) ==
    LET area_mm2 == (355 * diameter_mm * diameter_mm) \div (113 * 4)
        area_e3 == area_mm2 \div 1000
        volume_e3 == (area_e3 * 160934 * length_miles) \div 100
    IN  (volume_e3 * 25) \div 10

\* Mutant: the network is taken to have one conduit more.
calculate_network_capacity_extra(length_miles, num_conduits) ==
    calculate_conduit_capacity(length_miles, conduit_diameter_mm) * (num_conduits + 1)

\* Lines 26-29.
calculate_network_capacity(length_miles, num_conduits) ==
    calculate_conduit_capacity(length_miles, conduit_diameter_mm) * num_conduits

\* Mutant: the factor is active / total, and every conduit counts as standby.
calculate_network_redundancy_benefits_inverted(total_conduits, active_conduits) ==
    IF total_conduits = 0
    THEN [outcome |-> "ZeroDivisionError"]
    ELSE [outcome |-> "value",
          redundancy_factor |-> (active_conduits * 1000) \div total_conduits,
          standby_conduits |-> total_conduits]

\* Lines 116-128: total / active (in thousandths) and total - active.
calculate_network_redundancy_benefits(total_conduits, active_conduits) ==
    IF active_conduits = 0
    THEN [outcome |-> "ZeroDivisionError"]
    ELSE [outcome |-> "value",
          redundancy_factor |-> (total_conduits * 1000) \div active_conduits,
          standby_conduits |-> total_conduits - active_conduits]

\* /api/network_config, main.py lines 93-112: the three calls in a row.
update_network_config(conduit_length, num_conduits, active_conduits) ==
    LET single_capacity == calculate_conduit_capacity(conduit_length, conduit_diameter_mm)
        total_capacity == single_capacity * num_conduits
        redundancy == calculate_network_redundancy_benefits(num_conduits, active_conduits)
    IN  IF redundancy.outcome # "value"
        THEN [kind |-> "network_config",
              num_conduits |-> num_conduits,
              active_conduits |-> active_conduits,
              outcome |-> redundancy.outcome,
              conduit_length |-> conduit_length]
        ELSE [kind |-> "network_config",
              num_conduits |-> num_conduits,
              active_conduits |-> active_conduits,
              outcome |-> "value",
              redundancy_factor |-> redundancy.redundancy_factor,
              standby_conduits |-> redundancy.standby_conduits,
              conduit_length |-> conduit_length,
              total_capacity |-> total_capacity,
              single_conduit_capacity |-> single_capacity]

\* The arguments the callers of the capacity model are given.
CalcLengths == {-1, 0, 2, 4}
CalcDiameters == {0, conduit_diameter_mm}
CalcConduits == 0 .. 4

\* A call of the capacity model leaves the simulator alone.
CalcCall(op, result) ==
    /\ reading' = result
    /\ lastOp' = op
    /\ UNCHANGED <<current_rpm, target_rpm, is_spinning, spin_start_time,
                   spin_duration_minutes, spin_cycles_completed,
                   total_energy_generated, now,
                   phase, prevPhase, startCalls, thread,
                   simulation_running, simulation_threads>>

ConduitCapacity(length, diameter) ==
    CalcCall("conduit_capacity",
             [kind |-> "conduit_capacity",
              outcome |-> "value",
              conduit_length |-> length,
              diameter |-> diameter,
              capacity |-> calculate_conduit_capacity(length, diameter)])

NetworkCapacity(length, total) ==
    CalcCall("network_capacity",
             [kind |-> "network_capacity",
              num_conduits |-> total,
              outcome |-> "value",
              conduit_length |-> length,
              capacity |-> calculate_network_capacity(length, total)])

NetworkRedundancy(total, active) ==
    CalcCall("redundancy",
             [kind |-> "redundancy",
              num_conduits |-> total,
              active_conduits |-> active]
             @@ calculate_network_redundancy_benefits(total, active))

NetworkConfig(length, total, active) ==
    CalcCall("network_config", update_network_config(length, total, active))

NextCalc ==
    \/ \E l \in CalcLengths, d \in CalcDiameters : ConduitCapacity(l, d)
    \/ \E l \in CalcLengths, n \in CalcConduits : NetworkCapacity(l, n)
    \/ \E n \in CalcConduits, a \in CalcConduits : NetworkRedundancy(n, a)
    \/ \E l \in CalcLengths, n \in CalcConduits, a \in CalcConduits :
          NetworkConfig(l, n, a)

SpecCalc == Init /\ [][NextCalc]_vars

----
\* Other drivers of the simulator.

\* How long after its start the cycle of the phase-sequencing scenario is
\* followed (seconds).
ScenarioSpan == 1200
\* The clock steps of that scenario: 20 s, 1 min, 15 min.
ScenarioSteps == {20, 60, 900}

\* start_spin_cycle(15) on the fresh Idle core, then evaluations only.
NextScenario ==
    \/ startCalls = 0 /\ StartCycle(15, 0)
    \/ \E dt \in ScenarioSteps :
          /\ startCalls = 1
          /\ now + dt <= MinTime + ScenarioSpan
          /\ Evaluate(dt)

SpecScenario == Init /\ [][NextScenario]_vars

\* The durations /api/start_simulation passes on unchecked
\* (main.py lines 55-60: data.get('duration', 15)).
RequestDurations == {-5, 0, 15}

NextRequests ==
    \/ \E d \in RequestDurations, dt \in ClockSteps : StartCycle(d, dt)
    \/ EmergencyStop
    \/ \E dt \in ClockSteps : Evaluate(dt)

SpecRequests == Init /\ [][NextRequests]_vars

\* Evaluations go on, and time goes on while the clock of the model has room.
LiveSteps == {0, 900}
EvaluateLater == \E dt \in LiveSteps \ {0} : Evaluate(dt)
EvaluateAgain == \E dt \in LiveSteps : Evaluate(dt)

\* A cycle is only started while the clock of the model leaves it room to
\* run out.
NextLive ==
    \/ \E d \in Durations, dt \in LiveSteps :
          /\ now + dt + Max(spinup_time_seconds, d * 60) <= MaxTime
          /\ StartCycle(d, dt)
    \/ EmergencyStop
    \/ EvaluateLater
    \/ EvaluateAgain

SpecLive ==
    /\ Init
    /\ [][NextLive]_vars
    /\ WF_vars(EvaluateLater)
    /\ WF_vars(EvaluateAgain)

\* Threads.  main.py takes no lock: background_simulation (lines 24-43) runs
\* update_simulation in its own thread while the request handlers run
\* start_spin_cycle, emergency_stop and the getters in theirs, and a thread
\* switch may fall between any two bytecodes.  A spinning update_simulation
\* is split where it matters: the thread has tested is_spinning (line 43),
\* read the clock and the fields and computed the value of line 56, 59 or
\* 62 (UpdateLoad); then it stores it and runs lines 63-65 (UpdateStore).
UpdateLoad(dt) ==
    /\ thread.pc = "ready"
    /\ is_spinning
    /\ now + dt >= MinTime
    /\ now + dt <= MaxTime
    /\ now' = now + dt
    /\ thread' = [pc |-> "store",
                  value |-> update_simulation(Sim, now').current_rpm,
                  branch |-> Branch(Sim, now')]
    /\ lastOp' = "load"
    /\ reading' = NoReading
    /\ UNCHANGED <<current_rpm, target_rpm, is_spinning, spin_start_time,
                   spin_duration_minutes, spin_cycles_completed,
                   total_energy_generated, phase, prevPhase, startCalls,
                   simulation_running, simulation_threads>>

UpdateStore ==
    /\ thread.pc = "store"
    /\ current_rpm' = thread.value
    /\ IF thread.branch = "SpinDown" /\ thread.value <= 0
       THEN is_spinning' = FALSE /\ spin_start_time' = None
       ELSE UNCHANGED <<is_spinning, spin_start_time>>
    /\ thread' = ThreadReady
    /\ lastOp' = "update"
    /\ prevPhase' = phase
    /\ phase' = IF is_spinning' THEN thread.branch ELSE "Idle"
    /\ reading' = NoReading
    /\ UNCHANGED <<target_rpm, spin_duration_minutes, spin_cycles_completed,
                   total_energy_generated, now, startCalls,
                   simulation_running, simulation_threads>>

\* Lines 43-45: update_simulation of a core that is not spinning is one store.
UpdateIdle(dt) ==
    /\ thread.pc = "ready"
    /\ ~is_spinning
    /\ Evaluate(dt)

\* The commands of the request handlers and the update_simulation of
\* another thread, in any interleaving.
NextThreads ==
    \/ \E d \in Durations, dt \in ReadingSteps : StartCycle(d, dt)
    \/ EmergencyStop
    \/ \E dt \in ClockSteps : UpdateLoad(dt)
    \/ UpdateStore
    \/ \E dt \in ReadingSteps : UpdateIdle(dt)

SpecThreads == Init /\ [][NextThreads]_vars

\* The scenario calculations (src/energy_calculator.py lines 31-77).  A
\* scenario is a record: spin_time in 1e-5 minutes, frequency_x2 in halves
\* of a cycle per day (the catalog has 0.5 per day).  Energies are in units
\* of 1/60000 GWh, so that every value below is exact.

\* Line 6.
core_max_power_gw == 200
\* Line 9: 2217.3 / 1000 GWh, in units of 1/60000 GWh.
startup_energy_gwh == 133038

\* Lines 31-36: (spin_time_min / 60) * core_max_power_gw * frequency, which
\* in these units is spin_time * core_max_power_gw * frequency_x2 / 200.
calculate_daily_energy(scenario) ==
    scenario.spin_time * ((core_max_power_gw * scenario.frequency_x2) \div 200)

\* Lines 41 and 66: startup_energy_gwh * frequency_per_day.
StartupCosts(scenario) == (startup_energy_gwh * scenario.frequency_x2) \div 2

\* Mutant: the startup costs are added to the daily energy.
calculate_net_energy_gain_adding(scenario) ==
    calculate_daily_energy(scenario) + StartupCosts(scenario)

\* Lines 38-42.
calculate_net_energy_gain(scenario) ==
    calculate_daily_energy(scenario) - StartupCosts(scenario)

\* Lines 52-54: startup_energy_gwh / core_max_power_gw hours, in 1e-7 hours.
calculate_break_even_time == (startup_energy_gwh * 5) \div (6 * (core_max_power_gw \div 200))

\* Line 76: calculate_break_even_time() * 60, in 1e-5 minutes.
BreakEvenMinutes == (calculate_break_even_time * 60) \div 100

\* Python's a / b for numbers: ZeroDivisionError when b is 0; the quotient
\* is kept in tenths.
TrueDiv(a, b) ==
    IF b = 0 THEN [outcome |-> "ZeroDivisionError"]
    ELSE [outcome |-> "value", value |-> (a * 10) \div b]

\* Mutant: the division is not guarded.
EfficiencyRatioUnguarded(daily_energy, startup_costs) ==
    TrueDiv(daily_energy, startup_costs)

\* Line 68: daily_energy / startup_costs if startup_costs > 0 else 0.
EfficiencyRatio(daily_energy, startup_costs) ==
    IF startup_costs > 0 THEN TrueDiv(daily_energy, startup_costs)
    ELSE [outcome |-> "value", value |-> 0]

\* Lines 60-77, for the scenario the name stands for.
analyze_scenario_efficiency(scenario) ==
    LET daily_energy == calculate_daily_energy(scenario)
        startup_costs == StartupCosts(scenario)
        net_energy == daily_energy - startup_costs
        efficiency_ratio == EfficiencyRatio(daily_energy, startup_costs)
    IN  IF efficiency_ratio.outcome # "value"
        THEN [kind |-> "scenario",
              outcome |-> efficiency_ratio.outcome,
              spin_time |-> scenario.spin_time,
              frequency_x2 |-> scenario.frequency_x2]
        ELSE [kind |-> "scenario",
              outcome |-> "value",
              spin_time |-> scenario.spin_time,
              frequency_x2 |-> scenario.frequency_x2,
              efficiency_ratio |-> efficiency_ratio.value,
              daily_energy_gwh |-> daily_energy,
              startup_costs_gwh |-> startup_costs,
              net_energy_gwh |-> net_energy,
              break_even_minutes |-> BreakEvenMinutes]

\* The scenarios the calculations are given: those of the catalog of lines
\* 13-18 (15 min 4 a day, 30 min 2 a day, 60 min 1 a day, 120 min 0.5 a day)
\* and scenarios with no cycle per day or with a spin time below, at and
\* above the break-even time.
ScenarioSpinTimes == {0, 66518, 66519, 66520, 1500000, 3000000, 6000000, 12000000}
ScenarioFrequencies == {0, 1, 2, 3, 4, 8}
Scenario(spin_time, frequency_x2) ==
    [spin_time |-> spin_time, frequency_x2 |-> frequency_x2]

DailyEnergy(scenario) ==
    CalcCall("daily_energy",
             [kind |-> "daily_energy",
              outcome |-> "value",
              spin_time |-> scenario.spin_time,
              frequency_x2 |-> scenario.frequency_x2,
              daily_energy |-> calculate_daily_energy(scenario)])

NetEnergyGain(scenario) ==
    CalcCall("net_energy_gain",
             [kind |-> "net_energy_gain",
              outcome |-> "value",
              spin_time |-> scenario.spin_time,
              frequency_x2 |-> scenario.frequency_x2,
              net_energy |-> calculate_net_energy_gain(scenario)])

ScenarioEfficiency(scenario) ==
    CalcCall("scenario", analyze_scenario_efficiency(scenario))

NextEnergy ==
    \/ \E t \in ScenarioSpinTimes, f \in ScenarioFrequencies :
          DailyEnergy(Scenario(t, f))
    \/ \E t \in ScenarioSpinTimes, f \in ScenarioFrequencies :
          NetEnergyGain(Scenario(t, f))
    \/ \E t \in ScenarioSpinTimes, f \in ScenarioFrequencies :
          ScenarioEfficiency(Scenario(t, f))

SpecEnergy == Init /\ [][NextEnergy]_vars

\* The polling threads of the host application (main.py lines 21-78).
\* /api/start_simulation starts the cycle and, when simulation_running is
\* false, sets it and starts a background_simulation thread (lines 60-66).
StartSimulation(d, dt) ==
    /\ startCalls < MaxCycles
    /\ now + dt >= MinTime
    /\ now + dt <= MaxTime
    /\ now' = now + dt
    /\ Install(start_spin_cycle(Sim, d, now'))
    /\ IF ~simulation_running
       THEN /\ simulation_running' = TRUE
            /\ simulation_threads' = simulation_threads + 1
       ELSE UNCHANGED <<simulation_running, simulation_threads>>
    /\ lastOp' = "start"
    /\ startCalls' = startCalls + 1
    /\ reading' = NoReading
    /\ UNCHANGED <<phase, prevPhase, thread>>

\* /api/stop_simulation, lines 70-78: emergency_stop, then the flag is
\* cleared; no thread is joined.
StopSimulation ==
    /\ Install(emergency_stop(Sim))
    /\ simulation_running' = FALSE
    /\ lastOp' = "stop"
    /\ reading' = NoReading
    /\ UNCHANGED <<now, phase, prevPhase, startCalls, thread, simulation_threads>>

\* A polling thread finds simulation_running true at line 27 and runs one
\* round of its loop (lines 28-43).
PollerRound(dt) ==
    /\ simulation_threads > 0
    /\ simulation_running
    /\ BackgroundSimulation(dt)

\* A polling thread finds simulation_running false at line 27 and ends.
PollerExit ==
    /\ simulation_threads > 0
    /\ ~simulation_running
    /\ simulation_threads' = simulation_threads - 1
    /\ lastOp' = "exit"
    /\ reading' = NoReading
    /\ UNCHANGED <<current_rpm, target_rpm, is_spinning, spin_start_time,
                   spin_duration_minutes, spin_cycles_completed,
                   total_energy_generated, now, phase, prevPhase, startCalls,
                   thread, simulation_running>>

NextHost ==
    \/ \E d \in Durations, dt \in ReadingSteps : StartSimulation(d, dt)
    \/ StopSimulation
    \/ \E dt \in ReadingSteps : PollerRound(dt)
    \/ PollerExit

SpecHost == Init /\ [][NextHost]_vars

----
\* Properties of the simulator.

\* One step along the cycle Idle -> SpinUp -> Steady -> SpinDown -> Idle,
\* or no step at all.
PhaseStep(p, q) ==
    \/ p = q
    \/ <<p, q>> \in {<<"Idle", "SpinUp">>, <<"SpinUp", "Steady">>,
                     <<"Steady", "SpinDown">>, <<"SpinDown", "Idle">>}

\* C1: the phase observed at successive evaluations only changes along
\* Idle -> SpinUp -> Steady -> SpinDown -> Idle, no phase skipped and no step
\* backward.  Stated here for two evaluations with no command between them,
\* which the claim covers: update_simulation alone must not skip Steady.
C1_PhaseFollowsCycle ==
    [][(lastOp = "update" /\ lastOp' = "update") => PhaseStep(phase, phase')]_vars

\* C2 as claimed: in every reachable state current_rpm = 0 exactly when the
\* core is Idle (is_spinning is False).
C2_RpmZeroIffIdle == (current_rpm = 0) <=> ~is_spinning

\* C2, amended: in the state an evaluation leaves, an Idle core has
\* current_rpm = 0 (so current_rpm # 0 implies the core is spinning).
C2_IdleAfterEvaluateReadsZero ==
    (lastOp = "update" /\ ~is_spinning) => current_rpm = 0

\* An emergency stop at full speed, then an evaluation.
C2_Witness ==
    /\ lastOp = "update"
    /\ ~is_spinning
    /\ target_rpm = 0
    /\ prevPhase = "Steady"
    /\ current_rpm = 0

\* C3: in every reachable state 0 <= current_rpm <= max_rpm, whatever the
\* sequence of commands, evaluations and evaluation timestamps.
C3_RpmWithinRange == 0 <= current_rpm /\ current_rpm <= max_rpm

\* C4: in every reachable state spin_start_time is set exactly when the core
\* is spinning; no operation changes one without the other.
C4_StartTimeIffSpinning == (spin_start_time # None) <=> is_spinning

\* A cycle that ended by its own spin-down: both were cleared by the
\* evaluation that brought current_rpm to 0.
C4_Witness ==
    /\ lastOp = "update"
    /\ prevPhase = "SpinDown"
    /\ phase = "Idle"
    /\ target_rpm = max_rpm
    /\ spin_start_time = None
    /\ ~is_spinning

\* C5: start_spin_cycle(d), called in any phase, leaves target_rpm = max_rpm,
\* the core spinning, spin_start_time = now, spin_duration_minutes = d and
\* spin_cycles_completed one higher; current_rpm is not touched.
C5_StartCycleEffect ==
    [][\A d \in Durations, dt \in ClockSteps :
          StartCycle(d, dt) =>
              /\ target_rpm' = max_rpm
              /\ is_spinning'
              /\ spin_start_time' = now'
              /\ spin_duration_minutes' = d
              /\ spin_cycles_completed' = spin_cycles_completed + 1
              /\ current_rpm' = current_rpm]_vars

\* A start issued while a cycle with another duration was still running.
C5_Witness ==
    /\ lastOp = "start"
    /\ current_rpm > 0
    /\ phase = "Steady"
    /\ spin_duration_minutes = 10
    /\ spin_cycles_completed = 2
    /\ spin_start_time = now

\* C6: spin_cycles_completed never decreases: every start_spin_cycle adds
\* exactly 1, every other operation leaves it alone, so it always equals the
\* number of start_spin_cycle calls made so far.
C6_CyclesCountStarts ==
    /\ [](spin_cycles_completed = startCalls)
    /\ [][IF lastOp' = "start" /\ startCalls' # startCalls
          THEN spin_cycles_completed' = spin_cycles_completed + 1
          ELSE spin_cycles_completed' = spin_cycles_completed]_vars

\* Two starts, and the second cycle has run down to Idle by itself.
C6_Witness ==
    /\ spin_cycles_completed = 2
    /\ lastOp = "update"
    /\ prevPhase = "SpinDown"
    /\ phase = "Idle"
    /\ target_rpm = max_rpm

\* C7: emergency_stop sets target_rpm = 0, the core Idle and spin_start_time
\* None, and leaves current_rpm, spin_duration_minutes and
\* spin_cycles_completed as they were; the evaluation that follows the stop
\* is what sets current_rpm to 0.
C7_EmergencyStopEffect ==
    [][/\ EmergencyStop =>
            /\ target_rpm' = 0
            /\ ~is_spinning'
            /\ spin_start_time' = None
            /\ current_rpm' = current_rpm
            /\ spin_duration_minutes' = spin_duration_minutes
            /\ spin_cycles_completed' = spin_cycles_completed
       /\ (lastOp = "stop" /\ lastOp' = "update") => current_rpm' = 0]_vars

\* Just after a stop at speed: Idle, and current_rpm still positive.
C7_Witness ==
    /\ lastOp = "stop"
    /\ current_rpm > 0
    /\ ~is_spinning
    /\ target_rpm = 0
    /\ spin_start_time = None

\* C8: after an emergency stop (in SpinUp or anywhere else) the very next
\* evaluation reports Idle with current_rpm = 0, and so does every
\* evaluation until the next start_spin_cycle: none reports Steady.
C8_StopLeadsToIdle ==
    [][(lastOp' = "update" /\ (lastOp = "stop" \/ ~is_spinning)) =>
          (phase' = "Idle" /\ current_rpm' = 0 /\ ~is_spinning')]_vars

\* The evaluation before the stop saw SpinUp, the one after it sees Idle.
C8_Witness ==
    /\ lastOp = "update"
    /\ prevPhase = "SpinUp"
    /\ phase = "Idle"
    /\ target_rpm = 0
    /\ current_rpm = 0
    /\ startCalls > 0

\* C9: two consecutive evaluations at the same instant, no command between
\* them, leave the same state and so return the same reading, in every phase.
C9_EvaluateIdempotent ==
    [][(lastOp = "update" /\ lastOp' = "update" /\ now' = now) =>
          /\ current_rpm' = current_rpm
          /\ is_spinning' = is_spinning
          /\ spin_start_time' = spin_start_time
          /\ phase' = phase
          /\ PowerMw(current_rpm') = PowerMw(current_rpm)
          /\ KineticEnergyMj(current_rpm') = KineticEnergyMj(current_rpm)
          /\ MaterialStressE4(current_rpm') = MaterialStressE4(current_rpm)
          /\ SafetyLevel(current_rpm') = SafetyLevel(current_rpm)]_vars

\* C10: every reading a handler assembles is a consistent tuple: its power,
\* kinetic energy, material stress and safety level are those of the rpm the
\* reading reports.
C10_ReadingConsistent ==
    /\ reading.kind \in {"stats", "status", "broadcast"} =>
          /\ reading.power = PowerMw(reading.rpm)
          /\ reading.kinetic_energy = KineticEnergyMj(reading.rpm)
    /\ reading.kind \in {"status", "broadcast"} =>
          /\ reading.material_stress = MaterialStressE4(reading.rpm)
          /\ reading.safety = SafetyLevel(reading.rpm)

\* C11: after start_spin_cycle(15) at t on an Idle core, the evaluation at
\* t + 1 min observes SpinUp, the one at t + 16 min observes Steady with
\* current_rpm = target_rpm, the one at t + 16 min + 20 s observes SpinDown;
\* current_rpm rises from one evaluation to the next inside the spin-up
\* window.
C11_PhaseSequence ==
    (lastOp = "update" /\ spin_duration_minutes = 15 /\ spin_start_time # None) =>
        /\ now - spin_start_time = 60 =>
              (phase = "SpinUp" /\ current_rpm > 0 /\ current_rpm < target_rpm)
        /\ now - spin_start_time = 960 =>
              (phase = "Steady" /\ current_rpm = target_rpm)
        /\ now - spin_start_time = 980 => phase = "SpinDown"

\* C12: in SpinDown an evaluation lowers current_rpm by the deceleration rate
\* (acceleration_rate RPM per second) times the time since the previous
\* evaluation, so the rpm reached does not depend on the number of calls.
C12_SpinDownScalesWithTime ==
    [][(lastOp = "update" /\ lastOp' = "update"
            /\ phase = "SpinDown" /\ phase' = "SpinDown") =>
          current_rpm' = current_rpm - acceleration_rate * (now' - now)]_vars

\* C13: once a cycle has been started and is being evaluated, with no further
\* command the core reaches Idle with current_rpm = 0 and spin_start_time
\* cleared; an Idle core stays Idle until the next start_spin_cycle.
C13_CycleRunsOut ==
    /\ (lastOp = "update" /\ is_spinning) ~>
          \/ lastOp = "start"
          \/ (~is_spinning /\ current_rpm = 0 /\ spin_start_time = None)
    /\ [][(~is_spinning /\ lastOp' # "start") =>
             (~is_spinning' /\ spin_start_time' = None)]_vars

\* A 30-minute cycle that ran through Steady and down to Idle by itself.
C13_Witness ==
    /\ lastOp = "update"
    /\ spin_duration_minutes = 30
    /\ prevPhase = "SpinDown"
    /\ phase = "Idle"
    /\ current_rpm = 0
    /\ spin_start_time = None
    /\ target_rpm = max_rpm

\* C14: an evaluation whose time.time() is earlier than spin_start_time
\* takes the elapsed time as zero: current_rpm is 0 for it, never negative.
C14_NegativeElapsedClamped ==
    (lastOp = "update" /\ spin_start_time # None /\ now < spin_start_time) =>
        current_rpm = 0

\* C15: start_spin_cycle with a duration <= 0 is rejected before any
\* mutation: target_rpm, is_spinning, spin_start_time, spin_duration_minutes
\* and spin_cycles_completed are as they were.
C15_NonPositiveDurationRejected ==
    [][\A d \in RequestDurations, dt \in ClockSteps :
          (d <= 0 /\ StartCycle(d, dt)) =>
              /\ target_rpm' = target_rpm
              /\ is_spinning' = is_spinning
              /\ spin_start_time' = spin_start_time
              /\ spin_duration_minutes' = spin_duration_minutes
              /\ spin_cycles_completed' = spin_cycles_completed]_vars

\* The arguments the capacity model is to reject.
InvalidGeometry(r) ==
    \/ r.kind \in {"conduit_capacity", "network_config"} /\ r.conduit_length <= 0
    \/ r.kind = "conduit_capacity" /\ r.diameter <= 0
InvalidConduits(r) ==
    /\ r.kind \in {"redundancy", "network_config"}
    /\ ~(1 <= r.active_conduits /\ r.active_conduits < r.num_conduits)

\* C16: a capacity or redundancy call with a non-positive length or
\* diameter, or with active_conduits outside [1, total_conduits), ends with
\* InvalidParameter: not with a number, not with an arithmetic fault.
C16_InvalidParameterSignalled ==
    (reading.kind \in {"conduit_capacity", "redundancy", "network_config"}
        /\ (InvalidGeometry(reading) \/ InvalidConduits(reading)))
    => reading.outcome = "InvalidParameter"

\* C17: start_spin_cycle, emergency_stop and update_simulation exclude each
\* other, so that in no interleaving an update_simulation that has completed
\* leaves the core torn: current_rpm > 0 while it is not spinning.
C17_NoTornState ==
    (lastOp = "update" /\ ~is_spinning) => current_rpm = 0

\* C18: the safety level of a reading is a function of the rpm of the same
\* reading, with half-open bands: green (MAXIMUM SAFETY) at 0, yellow (LOW
\* RISK) below 50000, orange (MODERATE RISK) below 150000, red (HIGH ENERGY)
\* from 150000; so the level is green exactly when the reading's rpm is 0.
C18_SafetyBandsOfReading ==
    reading.kind \in {"status", "broadcast"} =>
        /\ reading.rpm = 0 => reading.safety = "green"
        /\ (0 < reading.rpm /\ reading.rpm < 50000) => reading.safety = "yellow"
        /\ (50000 <= reading.rpm /\ reading.rpm < 150000) => reading.safety = "orange"
        /\ reading.rpm >= 150000 => reading.safety = "red"
        /\ reading.safety = "green" <=> reading.rpm = 0

\* C19: the power get_current_power reports is max_power_gw * rpm / max_rpm:
\* 0 at rpm 0, max_power_gw at max_rpm, and in every reachable state between
\* 0 and max_power_gw.
C19_PowerWithinRange ==
    LET power == PowerMw(update_simulation(Sim, now).current_rpm)
    IN  /\ PowerMw(0) = 0
        /\ PowerMw(max_rpm) = max_power_gw * 1000
        /\ 0 <= power
        /\ power <= max_power_gw * 1000

\* C20: the kinetic energy get_kinetic_energy reports is 0 exactly when the
\* rpm is 0, and at max_rpm it is the startup energy of the model
\* (startup_energy_gj, about 2217 GJ) to within 1 GJ.
C20_KineticEnergyAtMaxRpm ==
    /\ (KineticEnergyMj(current_rpm) = 0) <=> (current_rpm = 0)
    /\ current_rpm = max_rpm =>
          /\ KineticEnergyMj(current_rpm) >= startup_energy_mj - 1000
          /\ KineticEnergyMj(current_rpm) <= startup_energy_mj + 1000

\* C21: the efficiency ratio of a scenario is its daily energy divided by
\* startup_energy_gwh * frequency_per_day when the frequency is positive, and
\* 0 when the frequency is 0; the call never ends in a division error.
C21_EfficiencyRatioDefined ==
    reading.kind = "scenario" =>
        /\ reading.outcome = "value"
        /\ reading.frequency_x2 = 0 => reading.efficiency_ratio = 0
        /\ reading.frequency_x2 > 0 =>
              reading.efficiency_ratio =
                  (calculate_daily_energy(Scenario(reading.spin_time, reading.frequency_x2)) * 10)
                      \div ((startup_energy_gwh * reading.frequency_x2) \div 2)

\* A scenario with no cycle per day and a positive spin time was analysed.
C21_Witness ==
    /\ reading.kind = "scenario"
    /\ reading.frequency_x2 = 0
    /\ reading.spin_time > 0
    /\ reading.outcome = "value"
    /\ reading.efficiency_ratio = 0

\* C24: the net energy gain of a scenario is its daily energy less
\* startup_energy_gwh * frequency_per_day; with a positive frequency it is
\* negative exactly when the spin time is below the break-even time
\* (startup_energy_gwh / core_max_power_gw hours, times 60), zero at it and
\* positive above it.
C24_NetGainAgainstBreakEven ==
    reading.kind = "net_energy_gain" =>
        LET scenario == Scenario(reading.spin_time, reading.frequency_x2)
            net == reading.net_energy
        IN  /\ net = calculate_daily_energy(scenario)
                        - (startup_energy_gwh * scenario.frequency_x2) \div 2
            /\ scenario.frequency_x2 > 0 =>
                  /\ net < 0 <=> scenario.spin_time < BreakEvenMinutes
                  /\ net = 0 <=> scenario.spin_time = BreakEvenMinutes
                  /\ net > 0 <=> scenario.spin_time > BreakEvenMinutes

\* The net gain of a scenario that spins for exactly the break-even time.
C24_Witness ==
    /\ reading.kind = "net_energy_gain"
    /\ reading.frequency_x2 > 0
    /\ reading.spin_time = BreakEvenMinutes
    /\ reading.net_energy = 0

\* C22: the capacity of a network of n conduits is n times the capacity of
\* one conduit of the same length and of diameter 48 * 0.0254 m, and the
\* total capacity /api/network_config reports is that network capacity.
C22_NetworkCapacityIsMultiple ==
    /\ reading.kind = "network_capacity" =>
          reading.capacity =
              reading.num_conduits
                  * calculate_conduit_capacity(reading.conduit_length, conduit_diameter_mm)
    /\ (reading.kind = "network_config" /\ reading.outcome = "value") =>
          /\ reading.total_capacity =
                calculate_network_capacity(reading.conduit_length, reading.num_conduits)
          /\ reading.total_capacity =
                reading.num_conduits * reading.single_conduit_capacity

\* /api/network_config has answered for 3 conduits of 4 miles, 2 of them
\* active, with a positive capacity.
C22_Witness ==
    /\ reading.kind = "network_config"
    /\ reading.outcome = "value"
    /\ reading.conduit_length = 4
    /\ reading.num_conduits = 3
    /\ reading.active_conduits = 2
    /\ reading.single_conduit_capacity > 0
    /\ reading.total_capacity = 3 * reading.single_conduit_capacity

\* C23: with 1 <= active_conduits < total_conduits the redundancy factor
\* total / active is above 1, there is at least one standby conduit, and
\* active + standby = total; for 3 conduits with 2 active the factor is 1.5
\* and one conduit stands by.
C23_RedundancyAboveOne ==
    (reading.kind = "redundancy"
        /\ 1 <= reading.active_conduits
        /\ reading.active_conduits < reading.num_conduits) =>
        /\ reading.outcome = "value"
        /\ reading.redundancy_factor > 1000
        /\ reading.standby_conduits >= 1
        /\ reading.active_conduits + reading.standby_conduits = reading.num_conduits
        /\ (reading.num_conduits = 3 /\ reading.active_conduits = 2) =>
              (reading.redundancy_factor = 1500 /\ reading.standby_conduits = 1)

\* The redundancy of 3 conduits with 2 active has been computed.
C23_Witness ==
    /\ reading.kind = "redundancy"
    /\ reading.num_conduits = 3
    /\ reading.active_conduits = 2
    /\ reading.redundancy_factor = 1500
    /\ reading.standby_conduits = 1

\* C25: start_spin_cycle begins the accrual of energy: once a cycle that
\* reported positive power has run down to Idle, total_energy_generated is
\* above the value it had before the cycle was started (it starts at 0 and
\* nothing lowers it, so it is above 0).
C25_EnergyAccrues ==
    (lastOp = "update" /\ prevPhase = "SpinDown" /\ phase = "Idle"
        /\ spin_cycles_completed > 0) =>
        total_energy_generated > 0

\* C26: update_simulation on a core that is not spinning sets current_rpm
\* to 0 and changes nothing else, whatever time.time() returns.
C26_IdleEvaluateFrame ==
    [][(~is_spinning /\ lastOp' = "update") =>
          /\ current_rpm' = 0
          /\ ~is_spinning'
          /\ phase' = "Idle"
          /\ UNCHANGED <<target_rpm, spin_start_time, spin_duration_minutes,
                         spin_cycles_completed>>]_vars

\* A stopped core (emergency_stop left target_rpm 0) that was spinning up
\* has been evaluated: it reads 0 and keeps the duration it was given.
C26_Witness ==
    /\ lastOp = "update"
    /\ prevPhase = "SpinUp"
    /\ phase = "Idle"
    /\ target_rpm = 0
    /\ current_rpm = 0
    /\ spin_start_time = None
    /\ spin_duration_minutes = 30
    /\ spin_cycles_completed = 1

\* C27: while the time since spin_start_time is in [0, 15 min), every
\* update_simulation sets current_rpm = target_rpm * elapsed / 900 whatever
\* current_rpm was before, so current_rpm < target_rpm during spin-up.
C27_SpinUpRamp ==
    [][(lastOp' = "update" /\ is_spinning
            /\ 0 <= now' - spin_start_time
            /\ now' - spin_start_time < spinup_time_seconds) =>
          /\ current_rpm' = (target_rpm * (now' - spin_start_time)) \div 900
          /\ current_rpm' < target_rpm
          /\ phase' = "SpinUp"]_vars

\* Half-way through spin-up the core is at half the target.
C27_Witness ==
    /\ lastOp = "update"
    /\ phase = "SpinUp"
    /\ is_spinning
    /\ now - spin_start_time = 450
    /\ current_rpm = 100000
    /\ target_rpm = max_rpm

\* C28: the first update_simulation of a cycle at 15 minutes or more since
\* spin_start_time observes Steady with current_rpm = target_rpm, whatever
\* the duration requested and however the spin-up was sampled.
C28_SpinUpEndsInSteady ==
    [][(lastOp' = "update" /\ is_spinning
            /\ (lastOp = "start" \/ (lastOp = "update" /\ phase = "SpinUp"))
            /\ now' - spin_start_time >= spinup_time_seconds) =>
          /\ phase' = "Steady"
          /\ current_rpm' = target_rpm]_vars

C30_SpinDownFloor ==
    [][(lastOp' = "update" /\ is_spinning
            /\ now' - spin_start_time >= spinup_time_seconds
            /\ now' - spin_start_time >= spin_duration_minutes * 60) =>
          /\ current_rpm' >= 0
          /\ current_rpm' = 0 <=> ~is_spinning'
          /\ ~is_spinning' => spin_start_time' = None
          /\ is_spinning' => spin_start_time' = spin_start_time]_vars

\* A 15-minute cycle has spun down to rest.
C30_Witness ==
    /\ lastOp = "update"
    /\ prevPhase = "SpinDown"
    /\ phase = "Idle"
    /\ spin_duration_minutes = 15
    /\ current_rpm = 0
    /\ ~is_spinning
    /\ spin_start_time = None

\* C31: from one update_simulation to the next, with no command between and
\* a clock that does not go back, current_rpm does not fall while the core
\* spins up or holds, and does not rise once the spin-down has begun (nor
\* after it, until the next start_spin_cycle).
C31_RpmMonotoneWithinPhase ==
    [][(lastOp = "update" /\ lastOp' = "update") =>
          /\ (phase \in {"SpinUp", "Steady"} /\ phase' \in {"SpinUp", "Steady"}) =>
                current_rpm' >= current_rpm
          /\ phase \in {"SpinDown", "Idle"} =>
                (current_rpm' <= current_rpm /\ phase' \in {"SpinDown", "Idle"})]_vars

\* Two spin-down steps in a row of a 30-minute cycle.
C31_Witness ==
    /\ lastOp = "update"
    /\ prevPhase = "SpinDown"
    /\ phase = "SpinDown"
    /\ spin_duration_minutes = 30
    /\ current_rpm = max_rpm - 2 * acceleration_rate

\* C32: start_spin_cycle on a core that is already spinning restarts the
\* ramp: spin_start_time is the time of the call, the core keeps spinning
\* with the rpm it had and one more cycle counted, and the next
\* update_simulation within 15 minutes sets
\* current_rpm = target_rpm * (time since the restart) / 900, whatever the
\* rpm reached before.
C32_RestartRestartsRamp ==
    [][/\ (is_spinning /\ lastOp' = "start") =>
             /\ is_spinning'
             /\ spin_start_time' = now'
             /\ current_rpm' = current_rpm
             /\ spin_cycles_completed' = spin_cycles_completed + 1
       /\ (lastOp = "start" /\ lastOp' = "update"
             /\ now' - spin_start_time < spinup_time_seconds) =>
             /\ is_spinning'
             /\ current_rpm' = (max_rpm * (now' - spin_start_time)) \div 900]_vars

\* A core that was holding max_rpm in Steady was restarted and evaluated 90
\* seconds later: it reads a tenth of the target.
C32_Witness ==
    /\ lastOp = "update"
    /\ startCalls = 2
    /\ spin_cycles_completed = 2
    /\ prevPhase = "Steady"
    /\ phase = "SpinUp"
    /\ now - spin_start_time = 90
    /\ current_rpm = 20000

\* C33: the ramp lasts the whole 15 minutes whatever the duration requested:
\* an update_simulation between the end of a shorter duration and 15 minutes
\* still ramps, and the spin-down is never observed before
\* max(15 min, spin_duration_minutes) have passed.
C33_RampLastsFullWindow ==
    /\ (lastOp = "update" /\ is_spinning
            /\ spin_duration_minutes * 60 <= now - spin_start_time
            /\ now - spin_start_time < spinup_time_seconds) =>
          /\ phase = "SpinUp"
          /\ current_rpm = (target_rpm * (now - spin_start_time)) \div 900
    /\ (lastOp = "update" /\ phase = "SpinDown") =>
          now - spin_start_time >= Max(spinup_time_seconds, spin_duration_minutes * 60)

\* A 10-minute cycle is still ramping 10.5 minutes after its start.
C33_Witness ==
    /\ lastOp = "update"
    /\ is_spinning
    /\ spin_duration_minutes = 10
    /\ now - spin_start_time = 630
    /\ phase = "SpinUp"
    /\ current_rpm = 140000

\* C36: target_rpm is 0 or max_rpm: 0 at first and after emergency_stop,
\* max_rpm after start_spin_cycle, and update_simulation never changes it.
C36_TargetRpmTwoValued ==
    [][/\ lastOp = "init" => target_rpm = 0
       /\ target_rpm' \in {0, max_rpm}
       /\ lastOp' = "stop" => target_rpm' = 0
       /\ lastOp' = "start" => target_rpm' = max_rpm
       /\ lastOp' = "update" => target_rpm' = target_rpm]_vars

\* A 10-minute cycle has spun down to rest by itself: the target is still
\* max_rpm.
C36_Witness ==
    /\ lastOp = "update"
    /\ prevPhase = "SpinDown"
    /\ phase = "Idle"
    /\ spin_duration_minutes = 10
    /\ ~is_spinning
    /\ current_rpm = 0
    /\ target_rpm = max_rpm

\* C34: a start_spin_cycle is never lost: an update_simulation that was
\* under way when start_spin_cycle ran (it had read the fields before the
\* call and completes after it) leaves the core spinning with the
\* spin_start_time the call has set.
C34_StartNotLost ==
    [][(lastOp = "start" /\ thread.pc = "store" /\ lastOp' = "update") =>
          /\ is_spinning'
          /\ spin_start_time' = spin_start_time]_vars

\* C35: at most one background_simulation thread is alive at any time,
\* whatever the order and timing of /api/start_simulation and
\* /api/stop_simulation.
C35_OnePollingThread ==
    simulation_threads <= 1

====
